---------------------------- MODULE Spec2Model ----------------------------
(***************************************************************************)
(* FDOT work-program ingestion (src/src/ingest_work_program.py).           *)
(*                                                                         *)
(* One run of the script: fetch_all pages through the feature service,     *)
(* the fetched table is filtered, reported and written to the GeoPackage.  *)
(* The service is the environment: it holds nrecords matching records and  *)
(* either answers every request with the exact slice asked for ("exact")   *)
(* or may answer with a short page, an over-long page or a page that       *)
(* overlaps the previous one ("loose"); any request may also end with a    *)
(* non-success status or a timeout.                                        *)
(*                                                                         *)
(* Page sizes and record counts are scaled down: page_size ranges over     *)
(* 1..MaxPageSize instead of the default 2000.                             *)
(***************************************************************************)
EXTENDS Integers, Sequences, FiniteSets, TLC

\* ----------------------------------------------------------------- bounds
MaxPageSize == 3
MaxRecords == 6
MaxFeatures == 7
MaxSaves == 2

\* ------------------------------------------------------------- the inputs
\* The feature catalogue: record i of the service has the geometry and the
\* LOC_ERROR value of kind ((i - 1) mod 6) + 1.  "null" is a feature whose
\* GeoJSON geometry is null (a missing geometry, None in the table);
\* "empty" is a geometry object with no coordinates.  "NULL" is a LOC_ERROR
\* property whose JSON value is null.
Geometries == << "point", "empty", "null", "point", "point", "point" >>
LocErrors == << "NO ERROR", "NO ERROR", "NO ERROR", "LOCATION ERROR", "NULL", "no error" >>

Kind(id) == ((id - 1) % Len(Geometries)) + 1

\* The query string main passes to fetch_all, and the endpoint's other
\* fixed parameters.
WHERE == "CONTYNAM = 'MIAMI-DADE'"
OUT_SR == 4326

\* The output file before the run: absent, or left behind by an earlier run.
OldRows == << 1, 4 >>
PriorFiles == { [exists |-> FALSE, rows |-> << >>], [exists |-> TRUE, rows |-> OldRows] }

VARIABLES
    page_size,      \* fetch_all's page_size argument
    nrecords,       \* number of records the service holds for the query
    mode,           \* "exact" | "loose": how the service answers
    has_loc_error,  \* whether the layer's features carry a LOC_ERROR property
    prior,          \* the output file before the run (never changes)
    pc,             \* the script's position
    features,       \* fetch_all's accumulator (ids of the features, in order)
    offset,         \* fetch_all's offset
    params,         \* the query parameters of the latest request
    nrequests,      \* number of HTTP requests issued so far
    last_status,    \* how the latest request ended: "none" before the first
    last_batch,     \* the features of the latest response
    received,       \* every feature the service returned, in arrival order
    gdf_mdc,        \* the table held by main
    report,         \* what the validation report printed
    file,           \* the output file
    done,           \* the steps of main completed so far, in order
    error           \* the exception that ended the run, "none" otherwise

vars == << page_size, nrecords, mode, has_loc_error, prior, pc, features, offset,
           params, nrequests, last_status, last_batch, received, gdf_mdc,
           report, file, done, error >>

inputs == << page_size, nrecords, mode, has_loc_error, prior >>

\* ------------------------------------------------------------ the features
Min(a, b) == IF a < b THEN a ELSE b
Max(a, b) == IF a > b THEN a ELSE b

\* The geometry of a feature as the table holds it.
Geometry(id) == Geometries[Kind(id)]

\* The LOC_ERROR value of a row: the service's value, or "NULL" (NaN) for a
\* row whose feature carries no such property.
LocError(id) == IF has_loc_error THEN LocErrors[Kind(id)] ELSE "NULL"

\* GeoSeries.is_empty: True for an empty geometry, False for any other and
\* for a missing one.
IsEmpty(id) == Geometry(id) = "empty"

\* GeoSeries.isna: True for a missing geometry only.
IsNa(id) == Geometry(id) = "null"

\* ------------------------------------------------------------- the service
\* The records matching the query, in the service's order.
Records == [i \in 1..nrecords |-> i]

\* The records at positions [start, start + count) of the list.
Slice(start, count) == SubSeq(Records, start + 1, Min(start + count, nrecords))

\* What the service may answer to a request for count records at off.  An
\* exact service returns the slice asked for.  A loose one may start one
\* record early (the page overlaps the previous one) and may return fewer
\* records than it holds or one more than asked; it stops feeding the
\* client once MaxFeatures features were delivered.
Answers(off, count) ==
    IF mode = "exact"
    THEN { Slice(off, count) }
    ELSE { Slice(Min(s, nrecords), n) :
             s \in { off, Max(off - 1, 0) },
             n \in 0..Min(count + 1, MaxFeatures - Len(features)) }

\* ---------------------------------------------------------------- fetch_all
NoParams == [where |-> "", outFields |-> "", f |-> "", outSR |-> 0,
             resultRecordCount |-> 0, resultOffset |-> 0]

BuildParams ==
    [where |-> WHERE, outFields |-> "*", f |-> "geojson", outSR |-> OUT_SR,
     resultRecordCount |-> page_size, resultOffset |-> offset]

\* Variant: only the timeout raises; the status of the response is not checked.
RaisesTimeoutOnly(status) == status = "timeout"

\* requests.get(..., timeout=60) raises on a timeout and r.raise_for_status()
\* raises on a non-success status.
Raises(status) == status \in { "http_error", "timeout" }

ErrorOf(status) == IF status = "timeout" THEN "Timeout" ELSE "HTTPError"

\* data.get("features", []): the body of a response that is not a success
\* carries no features.
BatchesOf(status, off, count) == IF status = "ok" THEN Answers(off, count) ELSE { << >> }

\* Variant: features already accumulated are skipped.
ExtendDedup(fs, batch) ==
    fs \o SelectSeq(batch, LAMBDA b : \A i \in 1..Len(fs) : fs[i] # b)

\* features.extend(batch)
Extend(fs, batch) == fs \o batch

\* Variant: the offset advances by the page size asked for.
NextOffsetByPage(off, batch) == off + page_size

\* offset += len(batch)
NextOffset(off, batch) == off + Len(batch)

\* Variants of the last-page test: a full page stops the loop too; no page
\* but an empty one stops it; any page of another size than asked stops it.
ShortPageOrFull(batch) == Len(batch) <= page_size
ShortPageNever(batch) == FALSE
ShortPageOrLong(batch) == Len(batch) # page_size

\* len(batch) < page_size
ShortPage(batch) == Len(batch) < page_size

NoTable == [rows |-> << >>, geometry_col |-> FALSE, loc_error_col |-> FALSE]

\* GeoDataFrame.from_features: one row per feature, in order; the columns are
\* the keys of the rows, so a table built from no feature has none.
FromFeatures(fs) ==
    [rows |-> fs, geometry_col |-> fs # << >>,
     loc_error_col |-> fs # << >> /\ has_loc_error]

\* One iteration of the while loop: build the parameters, issue the request,
\* and either raise, or break on an empty batch, or accumulate the batch and
\* break on a short one.
FetchPage ==
    /\ pc = "fetch"
    /\ \E status \in { "ok", "http_error", "timeout" } :
         \E batch \in BatchesOf(status, offset, page_size) :
            /\ params' = BuildParams
            /\ nrequests' = nrequests + 1
            /\ last_status' = status
            /\ last_batch' = batch
            /\ received' = received \o batch
            /\ IF Raises(status)
               THEN /\ pc' = "aborted"
                    /\ error' = ErrorOf(status)
                    /\ UNCHANGED << features, offset >>
               ELSE IF batch = << >>
               THEN /\ pc' = "materialize"
                    /\ UNCHANGED << features, offset, error >>
               ELSE /\ features' = Extend(features, batch)
                    /\ offset' = NextOffset(offset, batch)
                    /\ pc' = IF ShortPage(batch) THEN "materialize" ELSE "fetch"
                    /\ UNCHANGED error
    /\ UNCHANGED << inputs, gdf_mdc, report, file, done >>

\* The return of fetch_all, assigned to gdf_mdc by main.
Materialize ==
    /\ pc = "materialize"
    /\ gdf_mdc' = FromFeatures(features)
    /\ done' = Append(done, "fetch")
    /\ pc' = "clean"
    /\ UNCHANGED << inputs, features, offset, params, nrequests, last_status,
                    last_batch, received, report, file, error >>

\* -------------------------------------------------------------------- main
\* Variant: only the rows flagged "LOCATION ERROR" are dropped.
MaskKnownError(id) == (~IsEmpty(id)) /\ (LocError(id) # "LOCATION ERROR")

\* The boolean mask of the cleaning step, row by row.
Mask(id) == (~IsEmpty(id)) /\ (LocError(id) = "NO ERROR")

\* gdf[mask].copy(): the rows whose mask is True, in order.
RECURSIVE Masked(_)
Masked(rows) ==
    IF rows = << >> THEN << >>
    ELSE IF Mask(Head(rows)) THEN << Head(rows) >> \o Masked(Tail(rows))
    ELSE Masked(Tail(rows))

\* gdf_mdc.geometry and gdf_mdc["LOC_ERROR"] fail on a table without the column.
CleanFails(t) == ~t.geometry_col \/ ~t.loc_error_col

Clean ==
    /\ pc = "clean"
    /\ IF CleanFails(gdf_mdc)
       THEN /\ pc' = "aborted"
            /\ error' = IF ~gdf_mdc.geometry_col THEN "AttributeError" ELSE "KeyError"
            /\ UNCHANGED << gdf_mdc, done >>
       ELSE /\ gdf_mdc' = [gdf_mdc EXCEPT !.rows = Masked(gdf_mdc.rows)]
            /\ done' = Append(done, "filter")
            /\ pc' = "report"
            /\ UNCHANGED error
    /\ UNCHANGED << inputs, features, offset, params, nrequests, last_status,
                    last_batch, received, report, file >>

\* Series.sum() of a boolean column: the number of rows where it is True.
Sum(rows, column) == Cardinality({ i \in 1..Len(rows) : column[rows[i]] })

NoReport == [rows |-> -1, empty |-> -1, nulls |-> -1, no_error |-> -1]

Report ==
    /\ pc = "report"
    /\ report' = [rows |-> Len(gdf_mdc.rows),
                  empty |-> Sum(gdf_mdc.rows, [r \in 1..MaxRecords |-> IsEmpty(r)]),
                  nulls |-> Sum(gdf_mdc.rows, [r \in 1..MaxRecords |-> IsNa(r)]),
                  no_error |-> Sum(gdf_mdc.rows,
                                   [r \in 1..MaxRecords |-> LocError(r) = "NO ERROR"])]
    /\ done' = Append(done, "report")
    /\ pc' = "save"
    /\ UNCHANGED << inputs, features, offset, params, nrequests, last_status,
                    last_batch, received, gdf_mdc, file, error >>

Saves == Len(SelectSeq(done, LAMBDA s : s = "save"))

\* Variant: the rows are appended to the existing layer (mode "a").
ToFileAppend(old, t) == [exists |-> TRUE, rows |-> old.rows \o t.rows]

\* gdf.to_file(path, driver="GPKG"): the default mode "w" replaces the file.
ToFile(old, t) == [exists |-> TRUE, rows |-> t.rows]

\* Variant: the file is written whether or not the earlier steps succeeded.
SaveAlways == pc \in { "save", "done", "aborted" }

\* The persistence step runs after the report; it is run again, over the
\* same table, up to MaxSaves times.
SaveEnabled == pc \in { "save", "done" }

Save ==
    /\ SaveEnabled
    /\ Saves < MaxSaves
    /\ file' = ToFile(file, gdf_mdc)
    /\ done' = Append(done, "save")
    /\ pc' = "done"
    /\ UNCHANGED << inputs, features, offset, params, nrequests, last_status,
                    last_batch, received, gdf_mdc, report, error >>

\* ------------------------------------------------------------ specification
Init ==
    /\ page_size \in 1..MaxPageSize
    /\ nrecords \in 0..MaxRecords
    /\ mode \in { "exact", "loose" }
    /\ has_loc_error \in BOOLEAN
    /\ prior \in PriorFiles
    /\ file = prior
    /\ pc = "fetch"
    /\ features = << >>
    /\ offset = 0
    /\ params = NoParams
    /\ nrequests = 0
    /\ last_status = "none"
    /\ last_batch = << >>
    /\ received = << >>
    /\ gdf_mdc = NoTable
    /\ report = NoReport
    /\ done = << >>
    /\ error = "none"

Next == FetchPage \/ Materialize \/ Clean \/ Report \/ Save

Spec == Init /\ [][Next]_vars

\* The script is sequential and never waits on anything but the response,
\* which arrives or times out: every enabled step is eventually taken.
FairSpec == Spec /\ WF_vars(Next)

\* ------------------------------------------------------------------ claims
\* What the environment did, told apart from what the script made of it.
Failed(status) == status \in { "http_error", "timeout" }
Cleaned == pc \in { "report", "save", "done" }
Rows == gdf_mdc.rows

C2_RequestCount ==
    mode = "exact" /\ pc # "fetch" /\ ~Failed(last_status)
        => /\ nrequests = (nrecords \div page_size) + 1
           /\ Len(features) = nrecords
           /\ (nrecords = page_size => nrequests = 2)

\* C2 witness: pages of sizes 2, 2 and 1 with page_size 2: 5 records, 3 requests.
C2_Witness ==
    /\ mode = "exact" /\ pc = "materialize"
    /\ page_size = 2 /\ nrecords = 5
    /\ Len(features) = 5 /\ nrequests = 3 /\ Len(last_batch) = 1

\* C3: the request that ends with a non-success status or a timeout is the
\* last one: the run aborts in that very step, no table is returned, and
\* from then on no request is issued and nothing else happens.
C3_FailureAborts ==
    [][ /\ (Failed(last_status') /\ ~Failed(last_status)
              => /\ nrequests' = nrequests + 1
                 /\ pc' = "aborted"
                 /\ gdf_mdc' = NoTable
                 /\ features' = features)
        /\ (Failed(last_status)
              => /\ nrequests' = nrequests
                 /\ pc' = "aborted"
                 /\ gdf_mdc' = NoTable) ]_vars

\* C3 witness: a request failed after earlier pages had been accumulated.
C3_Witness ==
    /\ Failed(last_status) /\ pc = "aborted"
    /\ nrequests >= 2 /\ features # << >>
    /\ gdf_mdc = NoTable

\* C4: the cleaned table is the fetched table without the rows whose geometry
\* is empty and without the rows whose LOC_ERROR is not "NO ERROR", the other
\* rows kept in order; cleaning the cleaned table again changes nothing.
C4_CleaningFilter ==
    Cleaned
        => /\ Rows = SelectSeq(features,
                        LAMBDA r : ~(Geometry(r) = "empty" \/ LocError(r) # "NO ERROR"))
           /\ Masked(Rows) = Rows

\* C4 witness: the fetched table held a row with an empty geometry, a row
\* flagged "LOCATION ERROR" and clean rows, and was cleaned.
C4_Witness ==
    /\ pc = "report"
    /\ \E i \in 1..Len(features) : Geometry(features[i]) = "empty"
    /\ \E i \in 1..Len(features) : LocError(features[i]) = "LOCATION ERROR"
    /\ Rows # << >> /\ Len(Rows) < Len(features)

\* C5: after the cleaning step every remaining row has a geometry that is
\* present and non-empty and a LOC_ERROR equal to "NO ERROR".
C5_CleanedRowsHaveGeometry ==
    Cleaned
        => \A i \in 1..Len(Rows) :
              /\ Geometry(Rows[i]) \notin { "null", "empty" }
              /\ LocError(Rows[i]) = "NO ERROR"

\* C6: the steps complete in the order fetch, filter, report, save, and when
\* a request fails or the LOC_ERROR column is missing the output file is
\* never written: it stays as it was before the run.
StepOrder == << "fetch", "filter", "report", "save" >>

C6_FailureWritesNothing ==
    /\ \A i \in 1..Len(done) : done[i] = StepOrder[Min(i, Len(StepOrder))]
    /\ (Failed(last_status) \/ (~has_loc_error /\ pc # "fetch")
          => file = prior /\ Saves = 0 /\ pc \notin { "report", "save", "done" })
    /\ (pc = "aborted" => file = prior)

\* C6 witness: the fetch returned rows, the filter failed for want of the
\* LOC_ERROR column, and the file left by an earlier run is untouched.
C6_Witness ==
    /\ pc = "aborted" /\ error = "KeyError"
    /\ features # << >> /\ done = << "fetch" >>
    /\ prior.exists /\ file = prior

\* C7: the table fetch_all returns is the concatenation, in arrival order, of
\* the batches the service returned: one row per feature received, nothing
\* dropped, nothing reordered.
C7_TableIsConcatenation ==
    pc = "clean" => Rows = received /\ Len(Rows) = Len(received)

\* C7 witness: the service returned the same feature in two pages and the
\* returned table holds it twice.
C7_Witness ==
    /\ pc = "clean" /\ nrequests >= 2
    /\ \E i, j \in 1..Len(Rows) : i < j /\ Rows[i] = Rows[j]

\* C8: every run of the save step leaves the file holding exactly the rows of
\* the table, and a second run over the same table leaves the file as the
\* first did.
C8_SaveIdempotent ==
    [][ Saves' = Saves + 1
          => /\ file' = [exists |-> TRUE, rows |-> Rows]
             /\ (Saves >= 1 => file' = file) ]_vars

\* C8 witness: the step ran twice over a non-empty table, over a file left
\* by an earlier run.
C8_Witness ==
    /\ Saves = 2 /\ prior.exists
    /\ Rows # << >> /\ file.rows = Rows /\ file.rows # prior.rows

\* C9: after a successful response the loop goes on exactly when the batch
\* holds page_size features or more; an empty batch or a shorter one ends it,
\* whatever the service still holds, and no request follows.
C9_StopRule ==
    [][ /\ (nrequests' = nrequests + 1 /\ last_status' = "ok"
              => /\ (Len(last_batch') >= page_size <=> pc' = "fetch")
                 /\ (Len(last_batch') < page_size <=> pc' = "materialize"))
        /\ (pc # "fetch" => nrequests' = nrequests) ]_vars

\* C9 witness: a non-empty short batch ended the loop although the service
\* holds records beyond the offset, which the result lacks.
C9_Witness ==
    /\ pc = "clean" /\ last_batch # << >> /\ Len(last_batch) < page_size
    /\ offset < nrecords /\ Len(Rows) < nrecords

\* C10: every request carries resultOffset = the number of features
\* accumulated before it, larger than the previous request's, and the same
\* where, outFields, f, outSR and resultRecordCount.
C10_RequestParams ==
    [][ nrequests' # nrequests
          => /\ params'.resultOffset = Len(features)
             /\ params'.resultOffset = Len(received)
             /\ (nrequests > 0 => params'.resultOffset > params.resultOffset)
             /\ params'.where = WHERE
             /\ params'.outFields = "*"
             /\ params'.f = "geojson"
             /\ params'.outSR = OUT_SR
             /\ params'.resultRecordCount = page_size ]_vars

\* C10 witness: a later request whose offset is no multiple of page_size.
C10_Witness ==
    /\ nrequests >= 2
    /\ params.resultOffset % page_size # 0
    /\ last_status = "ok"

=============================================================================
